---- MODULE Spec2Model ----
(***************************************************************************)
(* State-machine model of the laizy crate: Lazy<T, F> (src/src/lib.rs),    *)
(* AsyncLazy<T, F> (src/src/asnc.rs) and AwaitInit (src/src/utils.rs).     *)
(*                                                                         *)
(* One cell is modelled.  Owner is the owner of the cell (the only one     *)
(* that can call the &mut self / self operations and Drop); the Callers   *)
(* are threads (Lazy) or tasks (AsyncLazy) sharing &self.                  *)
(* Rust's borrow rules are the guards of the call actions: a shared call   *)
(* starts only while the owner is idle, an exclusive call only while every *)
(* process is idle.                                                        *)
(***************************************************************************)
EXTENDS Naturals, FiniteSets

\* ---------------------------------------------------------------- bounds
NumCallers == 3
Cap == 2

\* ------------------------------------------------------- program constants
UNINIT == 0
INITIALIZING == 1
INIT == 2

\* Processes: the owner of the cell, and the callers that share it.
Owner == <<"owner", 0>>
Callers == {<<"caller", i>> : i \in 1..NumCallers}
Procs == Callers \cup {Owner}
NoProc == <<"none", 0>>

Kinds == {"Lazy", "AsyncLazy"}

\* Contents of a MaybeUninit slot, of a local, of a returned value.
EMPTY == <<"uninit", 0>>
F == <<"F", 0>>
Garbage == <<"garbage", 0>>
Val(k) == <<"val", k>>
Supplied == {Val(7), Val(8)}
NoRet == <<"-", EMPTY>>

\* Saturating ghost counter.
Inc(n) == IF n < Cap THEN n + 1 ELSE n

VARIABLES
    kind,       \* "Lazy" or "AsyncLazy"
    given,      \* constructor argument: F for new(f), a value for init(value)
    state,      \* AtomicU8
    f,          \* UnsafeCell<MaybeUninit<F>>
    value,      \* UnsafeCell<MaybeUninit<T>>
    waker,      \* AtomicWaker: the registered task, or NoProc
    alive,      \* the cell has not been moved into ManuallyDrop nor dropped
    pc,         \* position of each process
    op,         \* operation each process is in
    tmp,        \* local of each process (taken initializer, then its result)
    ret,        \* what the operation returned
    notified,   \* tasks whose waker was invoked and that were not polled since
    acq,        \* processes whose accesses happen after the write of the value slot
    last,       \* ghost: the task that registered its waker last, or NoProc
    cnt,        \* ghost counters: claims, runs, writes, f_reads, f_drops, v_drops, wakes
    faults      \* ghost: assertion failures / undefined behaviour met so far

vars == <<kind, given, state, f, value, waker, alive, pc, op, tmp, ret, notified, acq, last, cnt, faults>>

\* ----------------------------------------------------------- primitives

\* state.load(Ordering::Acquire) by p reading s: reading the INIT stored with
\* Release synchronises with the publish, so that the write of the value slot
\* happens before whatever p does next.  An exclusive borrow (&mut self) is
\* handed over by every other holder, so it orders the owner and all later
\* borrowers after what it can see.
load_acquire(p, s) ==
    IF s # INIT THEN acq
    ELSE IF p = Owner THEN Procs
    ELSE acq \cup {p}

\* The load of a failed compare_exchange(_, _, Acquire, Relaxed): Relaxed, it
\* synchronises with nothing (only &mut self orders the owner).
load_relaxed(p, s) ==
    IF s = INIT /\ p = Owner THEN Procs ELSE acq

\* swap/store(INIT, Ordering::Release) by p, who wrote the value slot.
store_release(p) ==
    IF p = Owner THEN Procs ELSE acq \cup {p}

\* Reading the value slot: a read not ordered after the write races with it
\* and may see the slot as it was before the write as well as after it.
racy(p) == IF p \in acq THEN {} ELSE {Garbage}

\* Mutant: a compare-exchange that reports success without storing the new value.
compare_exchange_no_store(s, current, new) ==
    [ok |-> s = current, prev |-> s, next |-> s]

\* AtomicU8::compare_exchange(current, new): the prior value, and the stored one.
compare_exchange(s, current, new) ==
    IF s = current THEN [ok |-> TRUE, prev |-> s, next |-> new]
    ELSE [ok |-> FALSE, prev |-> s, next |-> s]

\* MaybeUninit::assume_init / assume_init_ref: reading an uninitialised slot
\* is undefined behaviour, modelled as any outcome.
assume_init(slot) ==
    IF slot = EMPTY THEN {Garbage, F} \cup {Val(k) : k \in 1..Cap} \cup Supplied
    ELSE {slot}

\* Calling the initializer for the (n+1)-th time: a counting initializer.
call_once(g, n) ==
    IF g = F THEN Val(n + 1) ELSE Garbage

Fault(cond, name) == IF cond THEN {name} ELSE {}

Bump(field) == [cnt EXCEPT ![field] = Inc(@)]

\* ------------------------------------------------------------------ Init

\* Lazy::new / AsyncLazy::new
new(k) ==
    /\ kind = k
    /\ given = F
    /\ state = UNINIT
    /\ value = EMPTY
    /\ f = F

\* Mutant: init leaves the state at UNINIT.
init_state_uninit(k, v) ==
    /\ kind = k
    /\ given = v
    /\ state = UNINIT
    /\ value = v
    /\ f = EMPTY

\* Lazy::init / AsyncLazy::init (and From<T>)
init(k, v) ==
    /\ kind = k
    /\ given = v
    /\ state = INIT
    /\ value = v
    /\ f = EMPTY

Init ==
    /\ \E k \in Kinds : new(k) \/ \E v \in Supplied : init(k, v)
    /\ waker = NoProc
    /\ alive = TRUE
    /\ pc = [p \in Procs |-> "idle"]
    /\ op = [p \in Procs |-> "none"]
    /\ tmp = [p \in Procs |-> EMPTY]
    /\ ret = [p \in Procs |-> NoRet]
    /\ notified = {}
    /\ acq = IF state = INIT THEN Procs ELSE {Owner}
    /\ last = NoProc
    /\ cnt = [claims |-> 0, runs |-> 0, writes |-> 0, f_reads |-> 0,
              f_drops |-> 0, v_drops |-> 0, wakes |-> 0]
    /\ faults = {}

\* ------------------------------------------------------------ borrowing

\* &self: no exclusive borrow outstanding.
CanShare(p) ==
    /\ alive
    /\ p \in Callers
    /\ pc[p] = "idle"
    /\ pc[Owner] = "idle"

\* &mut self / self: no borrow outstanding at all.
CanOwn(p) ==
    /\ alive
    /\ p = Owner
    /\ \A q \in Procs : pc[q] = "idle"

CanCall(p) == CanShare(p) \/ CanOwn(p)

\* ------------------------------------------------------- status queries

\* is_uninit: self.state.load(Acquire) == UNINIT
is_uninit(k, s) == s = UNINIT

\* is_init: self.state.load(Acquire) == INITIALIZING
is_init(k, s) == s = INITIALIZING

\* Mutant: AsyncLazy's comparison off by one (>= INITIALIZING).
has_init_from_initializing(k, s) == IF k = "Lazy" THEN s = 2 ELSE s >= INITIALIZING

\* has_init: Lazy compares == 2, AsyncLazy compares > INITIALIZING
has_init(k, s) == IF k = "Lazy" THEN s = 2 ELSE s > INITIALIZING

Queries == {"is_uninit", "is_init", "has_init"}

\* The processes that call the status queries: the owner and one caller.  A
\* query writes nothing and acts on the cell as the load of try_get does, so
\* queries of further callers add no state of the cell.
Askers == {Owner, <<"caller", 1>>}
Bool(b) == <<"bool", IF b THEN 1 ELSE 0>>

\* What the query q answers on a cell of kind k whose load returned s.
answer(q, k, s) ==
    CASE q = "is_uninit" -> is_uninit(k, s)
      [] q = "is_init" -> is_init(k, s)
      [] q = "has_init" -> has_init(k, s)

\* A call of is_uninit, is_init or has_init: one load(Acquire) and a comparison.
query(p) ==
    /\ CanCall(p)
    /\ p \in Askers
    /\ \E q \in Queries :
        /\ op' = [op EXCEPT ![p] = q]
        /\ ret' = [ret EXCEPT ![p] = <<"Bool", Bool(answer(q, kind, state))>>]
    /\ acq' = load_acquire(p, state)
    /\ pc' = [pc EXCEPT ![p] = "done"]
    /\ UNCHANGED <<kind, given, state, f, value, waker, alive, tmp, notified, last, cnt, faults>>

\* ------------------------------------------- get / get_mut (Lazy, AsyncLazy)

\* Mutant: the Err(INIT) arm initializes again instead of going on to the read.
get_arm_reinit(k, r) ==
    IF r.prev = UNINIT \/ r.prev = INIT THEN "take"
    ELSE IF k = "Lazy" THEN "spin" ELSE "poll"

\* Mutant: the Err(INITIALIZING) arm goes on to the read without waiting.
get_arm_no_wait(k, r) ==
    IF r.ok /\ r.prev = UNINIT THEN "take"
    ELSE IF ~r.ok /\ r.prev \in {INITIALIZING, INIT} THEN "read"
    ELSE "unreachable"

\* The match arm taken on the result of compare_exchange(UNINIT, INITIALIZING).
get_arm(k, r) ==
    IF r.ok /\ r.prev = UNINIT THEN "take"
    ELSE IF ~r.ok /\ r.prev = INITIALIZING THEN (IF k = "Lazy" THEN "spin" ELSE "poll")
    ELSE IF ~r.ok /\ r.prev = INIT THEN "read"
    ELSE "unreachable"

\* get(&self) by a caller, get_mut(&mut self) by the owner: the compare-exchange.
get(p) ==
    /\ CanCall(p)
    /\ LET r == compare_exchange(state, UNINIT, INITIALIZING) IN
        /\ state' = r.next
        /\ pc' = [pc EXCEPT ![p] = get_arm(kind, r)]
        /\ cnt' = IF r.ok THEN Bump("claims") ELSE cnt
        /\ faults' = faults \cup Fault(get_arm(kind, r) = "unreachable", "unreachable")
    /\ op' = [op EXCEPT ![p] = IF p = Owner THEN "get_mut" ELSE "get"]
    /\ ret' = [ret EXCEPT ![p] = NoRet]
    /\ acq' = load_relaxed(p, state)
    /\ UNCHANGED <<kind, given, f, value, waker, alive, tmp, notified, last>>

\* Ok(UNINIT) arm: let f = mem::replace(&mut *self.f.get(), MaybeUninit::uninit())
get_take(p) ==
    /\ pc[p] = "take"
    /\ \E g \in assume_init(f) :
        /\ tmp' = [tmp EXCEPT ![p] = g]
        /\ faults' = faults \cup Fault(f = EMPTY, "f_read_uninit")
    /\ f' = EMPTY
    /\ cnt' = Bump("f_reads")
    /\ pc' = [pc EXCEPT ![p] = "call"]
    /\ UNCHANGED <<kind, given, state, value, waker, alive, op, ret, notified, acq, last>>

\* (f.assume_init())() / f.assume_init().await completes with the value.
get_call_returns(p) ==
    /\ pc[p] = "call"
    /\ tmp' = [tmp EXCEPT ![p] = call_once(tmp[p], cnt.runs)]
    /\ cnt' = Bump("runs")
    /\ pc' = [pc EXCEPT ![p] = "write"]
    /\ UNCHANGED <<kind, given, state, f, value, waker, alive, op, ret, notified, faults, acq, last>>

\* The initializer panics (in get, get_mut or into_inner): the caller unwinds,
\* the state stays as it was.
get_call_panics(p) ==
    /\ pc[p] \in {"call", "ii_call"}
    /\ tmp' = [tmp EXCEPT ![p] = EMPTY]
    /\ cnt' = Bump("runs")
    /\ pc' = [pc EXCEPT ![p] = "idle"]
    /\ op' = [op EXCEPT ![p] = "none"]
    /\ UNCHANGED <<kind, given, state, f, value, waker, alive, ret, notified, faults, acq, last>>

\* The initializer never returns (an infinite loop, a future that never completes).
get_call_hangs(p) ==
    /\ pc[p] \in {"call", "ii_call"}
    /\ cnt' = Bump("runs")
    /\ pc' = [pc EXCEPT ![p] = "hung"]
    /\ UNCHANGED <<kind, given, state, f, value, waker, alive, op, tmp, ret, notified, faults, acq, last>>

\* Mutant: the winner goes on to publish without having written the value slot.
get_write_skipped(p) ==
    /\ pc[p] = "write"
    /\ pc' = [pc EXCEPT ![p] = "publish"]
    /\ UNCHANGED <<kind, given, state, f, value, waker, alive, op, tmp, ret, notified, cnt, faults, acq, last>>

\* (&mut *self.value.get()).write(result)
get_write(p) ==
    /\ pc[p] = "write"
    /\ value' = tmp[p]
    /\ cnt' = Bump("writes")
    /\ pc' = [pc EXCEPT ![p] = "publish"]
    /\ UNCHANGED <<kind, given, state, f, waker, alive, op, tmp, ret, notified, faults, acq, last>>

\* Mutant: the publish stores UNINIT instead of INIT.
get_publish_regresses(p) ==
    /\ pc[p] = "publish"
    /\ state' = UNINIT
    /\ faults' = faults \cup Fault(state # INITIALIZING, "assert_eq")
    /\ pc' = [pc EXCEPT ![p] = IF kind = "Lazy" THEN "read" ELSE "wake"]
    /\ acq' = store_release(p)
    /\ UNCHANGED <<kind, given, f, value, waker, alive, op, tmp, ret, notified, cnt, last>>

\* self.state.swap(INIT, Release) (debug: asserted to return INITIALIZING) /
\* self.state.store(INIT, Release)
get_publish(p) ==
    /\ pc[p] = "publish"
    /\ state' = INIT
    /\ faults' = faults \cup Fault(state # INITIALIZING, "assert_eq")
    /\ pc' = [pc EXCEPT ![p] = IF kind = "Lazy" THEN "read" ELSE "wake"]
    /\ acq' = store_release(p)
    /\ UNCHANGED <<kind, given, f, value, waker, alive, op, tmp, ret, notified, cnt, last>>

\* Mutant: the waker is taken from the slot and dropped without being invoked.
wake_lost(w) ==
    [waker |-> NoProc, notified |-> {}]

\* AtomicWaker::wake: takes the registered waker, if any, and wakes its task.
wake(w) ==
    [waker |-> NoProc, notified |-> IF w = NoProc THEN {} ELSE {w}]

\* self.waker.wake()
get_wake(p) ==
    /\ pc[p] = "wake"
    /\ waker' = wake(waker).waker
    /\ notified' = notified \cup wake(waker).notified
    /\ cnt' = Bump("wakes")
    /\ pc' = [pc EXCEPT ![p] = "read"]
    /\ UNCHANGED <<kind, given, state, f, value, alive, op, tmp, ret, faults, acq, last>>

\* Mutant: the loop condition inverted (spins while the state is not INITIALIZING).
spin_exit_inverted(s) == s = INITIALIZING

\* Err(INITIALIZING) arm of Lazy: one iteration of
\* while self.state.load(Acquire) == 1 { spin_loop() }
spin_exit(s) == s # INITIALIZING


get_spin(p) ==
    /\ pc[p] = "spin"
    /\ pc' = [pc EXCEPT ![p] = IF spin_exit(state) THEN "read" ELSE "spin"]
    /\ acq' = load_acquire(p, state)
    /\ UNCHANGED <<kind, given, state, f, value, waker, alive, op, tmp, ret, notified, cnt, faults, last>>

\* unsafe { (&*self.value.get()).assume_init_ref() }
get_read(p) ==
    /\ pc[p] = "read"
    /\ op[p] \in {"get", "get_mut"}
    /\ \E v \in assume_init(value) \cup racy(p) :
        ret' = [ret EXCEPT ![p] = <<"Ref", v>>]
    /\ faults' = faults \cup Fault(value = EMPTY, "value_read_uninit")
                        \cup Fault(p \notin acq, "data_race")
    /\ pc' = [pc EXCEPT ![p] = "done"]
    /\ UNCHANGED <<kind, given, state, f, value, waker, alive, op, tmp, notified, cnt, acq, last>>

\* The returned reference (or the returned Option) goes out of scope.
release(p) ==
    /\ pc[p] = "done"
    /\ alive
    /\ pc' = [pc EXCEPT ![p] = "idle"]
    /\ op' = [op EXCEPT ![p] = "none"]
    /\ tmp' = [tmp EXCEPT ![p] = EMPTY]
    /\ ret' = [ret EXCEPT ![p] = NoRet]
    /\ UNCHANGED <<kind, given, state, f, value, waker, alive, notified, cnt, faults, acq, last>>

\* -------------------------------------------------- AwaitInit (utils.rs)

\* AtomicWaker::register: the single slot now holds the caller's waker.
register(w, p) == p

\* AwaitInit::poll, first half: self.waker.register(cx.waker())
poll_register(p) ==
    /\ pc[p] = "poll"
    /\ waker' = register(waker, p)
    /\ notified' = notified \ {p}
    /\ last' = p
    /\ pc' = [pc EXCEPT ![p] = "check"]
    /\ UNCHANGED <<kind, given, state, f, value, alive, op, tmp, ret, cnt, faults, acq>>

\* Mutant: Ready as soon as the state is no longer UNINIT.
poll_ready_early(s, target) == s # UNINIT

\* AwaitInit::poll, second half: Ready iff state.load(Acquire) == target
poll_ready(s, target) == s = target

poll_check(p) ==
    /\ pc[p] = "check"
    /\ pc' = [pc EXCEPT ![p] = IF ~poll_ready(state, INIT) THEN "pending"
                               ELSE IF op[p] = "into_inner" THEN "ii_value" ELSE "read"]
    /\ acq' = load_acquire(p, state)
    /\ UNCHANGED <<kind, given, state, f, value, waker, alive, op, tmp, ret, notified, cnt, faults, last>>

\* The executor polls a task again once its waker was invoked.
resume(p) ==
    /\ pc[p] = "pending"
    /\ p \in notified
    /\ notified' = notified \ {p}
    /\ pc' = [pc EXCEPT ![p] = "poll"]
    /\ UNCHANGED <<kind, given, state, f, value, waker, alive, op, tmp, ret, cnt, faults, acq, last>>

\* A poll nobody asked for (Future::poll may be called at any time).
spurious_poll(p) ==
    /\ pc[p] = "pending"
    /\ p \notin notified
    /\ pc' = [pc EXCEPT ![p] = "poll"]
    /\ UNCHANGED <<kind, given, state, f, value, waker, alive, op, tmp, ret, notified, cnt, faults, acq, last>>

\* The future returned by AsyncLazy::get is dropped at one of its await points:
\* awaiting the initializer (the winner) or awaiting AwaitInit (a loser).
drop_future(p) ==
    /\ kind = "AsyncLazy"
    /\ pc[p] \in {"call", "hung", "pending"}
    /\ op[p] \in {"get", "get_mut"}
    /\ pc' = [pc EXCEPT ![p] = "idle"]
    /\ op' = [op EXCEPT ![p] = "none"]
    /\ tmp' = [tmp EXCEPT ![p] = EMPTY]
    /\ notified' = notified \ {p}
    /\ UNCHANGED <<kind, given, state, f, value, waker, alive, ret, cnt, faults, acq, last>>

\* ------------------------------------------------- try_get / try_get_mut

\* Mutant: Some as soon as the state is no longer UNINIT.
try_get_arm_eager(s) == IF s # UNINIT THEN "Some" ELSE "None"

\* match self.state.load(Acquire) { INIT => Some(..), _ => None }
try_get_arm(s) == IF s = INIT THEN "Some" ELSE "None"

try_get(p) ==
    /\ CanCall(p)
    /\ op' = [op EXCEPT ![p] = IF p = Owner THEN "try_get_mut" ELSE "try_get"]
    /\ IF try_get_arm(state) = "Some"
       THEN /\ \E v \in assume_init(value) :
                ret' = [ret EXCEPT ![p] = <<"Some", v>>]
            /\ faults' = faults \cup Fault(value = EMPTY, "value_read_uninit")
       ELSE /\ ret' = [ret EXCEPT ![p] = <<"None", EMPTY>>]
            /\ faults' = faults
    /\ pc' = [pc EXCEPT ![p] = "done"]
    /\ acq' = load_acquire(p, state)
    /\ UNCHANGED <<kind, given, state, f, value, waker, alive, tmp, notified, cnt, last>>

\* ------------------------------------------- into_inner / try_into_inner

\* Mutant: the UNINIT and INIT arms exchanged.
into_inner_arms_swapped(k, s) ==
    IF s = UNINIT THEN {"ii_value"}
    ELSE IF s = INITIALIZING
         THEN (IF k = "Lazy" THEN {"unreachable", "ii_call", "ii_value"} ELSE {"poll"})
    ELSE {"ii_call"}

\* match this.state.load(Relaxed): the arms that can be taken.  The
\* INITIALIZING arm of Lazy is unreachable!() in a debug build (a panic) and
\* unreachable_unchecked() in a release build (undefined: any arm).
into_inner_arms(k, s) ==
    IF s = UNINIT THEN {"ii_call"}
    ELSE IF s = INITIALIZING
         THEN (IF k = "Lazy" THEN {"unreachable", "ii_call", "ii_value"} ELSE {"poll"})
    ELSE {"ii_value"}

\* into_inner(self): ManuallyDrop::new(self), the load, and for the UNINIT arm
\* mem::replace(this.f.get_mut(), MaybeUninit::uninit()).assume_init()
into_inner(p) ==
    /\ CanOwn(p)
    /\ alive' = FALSE
    /\ op' = [op EXCEPT ![p] = "into_inner"]
    /\ ret' = [ret EXCEPT ![p] = NoRet]
    /\ \E a \in into_inner_arms(kind, state) :
        /\ pc' = [pc EXCEPT ![p] = a]
        /\ IF a = "ii_call"
           THEN /\ \E g \in assume_init(f) : tmp' = [tmp EXCEPT ![p] = g]
                /\ f' = EMPTY
                /\ cnt' = Bump("f_reads")
                /\ faults' = faults \cup Fault(f = EMPTY, "f_read_uninit")
                                    \cup Fault(state # UNINIT, "unreachable")
           ELSE /\ UNCHANGED <<tmp, f, cnt>>
                /\ faults' = faults \cup Fault(kind = "Lazy" /\ state = INITIALIZING,
                                               "unreachable")
    /\ UNCHANGED <<kind, given, state, value, waker, notified, acq, last>>

\* f() / f.await completes: into_inner returns the result.
into_inner_call(p) ==
    /\ pc[p] = "ii_call"
    /\ ret' = [ret EXCEPT ![p] = <<"Owned", call_once(tmp[p], cnt.runs)>>]
    /\ tmp' = [tmp EXCEPT ![p] = EMPTY]
    /\ cnt' = Bump("runs")
    /\ pc' = [pc EXCEPT ![p] = "done"]
    /\ UNCHANGED <<kind, given, state, f, value, waker, alive, op, notified, faults, acq, last>>

\* mem::replace(this.value.get_mut(), MaybeUninit::uninit()).assume_init()
into_inner_value(p) ==
    /\ pc[p] = "ii_value"
    /\ \E v \in assume_init(value) :
        ret' = [ret EXCEPT ![p] = <<"Owned", v>>]
    /\ value' = EMPTY
    /\ faults' = faults \cup Fault(value = EMPTY, "value_read_uninit")
    /\ pc' = [pc EXCEPT ![p] = "done"]
    /\ UNCHANGED <<kind, given, state, f, waker, alive, op, tmp, notified, cnt, acq, last>>

\* Mutant: the value is handed out whenever the state is not INIT.
try_into_inner_arms_swapped(s) ==
    IF s = UNINIT THEN {"Ok"}
    ELSE IF s = INITIALIZING THEN {"unreachable", "Err", "Ok"}
    ELSE {"Err"}

\* Lazy::try_into_inner: the arms that can be taken (INITIALIZING as in into_inner).
try_into_inner_arms(s) ==
    IF s = UNINIT THEN {"Err"}
    ELSE IF s = INITIALIZING THEN {"unreachable", "Err", "Ok"}
    ELSE {"Ok"}

\* try_into_inner(self) -> Result<T, F>
try_into_inner(p) ==
    /\ CanOwn(p)
    /\ kind = "Lazy"
    /\ alive' = FALSE
    /\ op' = [op EXCEPT ![p] = "try_into_inner"]
    /\ \E a \in try_into_inner_arms(state) :
        /\ pc' = [pc EXCEPT ![p] = IF a = "unreachable" THEN "unreachable" ELSE "done"]
        /\ faults' = faults \cup Fault(state = INITIALIZING, "unreachable")
                            \cup Fault(a = "Err" /\ f = EMPTY, "f_read_uninit")
                            \cup Fault(a = "Ok" /\ value = EMPTY, "value_read_uninit")
        /\ CASE a = "Err" ->
                /\ \E g \in assume_init(f) : ret' = [ret EXCEPT ![p] = <<"Err", g>>]
                /\ f' = EMPTY
                /\ cnt' = Bump("f_reads")
                /\ UNCHANGED value
             [] a = "Ok" ->
                /\ \E v \in assume_init(value) : ret' = [ret EXCEPT ![p] = <<"Ok", v>>]
                /\ value' = EMPTY
                /\ UNCHANGED <<f, cnt>>
             [] OTHER ->
                /\ ret' = [ret EXCEPT ![p] = NoRet]
                /\ UNCHANGED <<f, value, cnt>>
    /\ UNCHANGED <<kind, given, state, waker, tmp, notified, acq, last>>

\* ------------------------------------------------------------------ Drop

\* Mutant: the INITIALIZING arm falls through to dropping the value at once.
drop_arm_no_wait(s) ==
    IF s = UNINIT THEN "dropped" ELSE "drop_value"

\* match self.state.load(Relaxed) { 0 => .., 1 => .., _ => .. }
drop_arm(s) ==
    IF s = UNINIT THEN "dropped"
    ELSE IF s = INITIALIZING THEN "drop_spin"
    ELSE "drop_value"

\* Mutant: the UNINIT arm drops the initializer without returning, and goes on
\* to drop the value slot.
drop_without_return(p) ==
    /\ CanOwn(p)
    /\ alive' = FALSE
    /\ op' = [op EXCEPT ![p] = "drop"]
    /\ ret' = [ret EXCEPT ![p] = NoRet]
    /\ pc' = [pc EXCEPT ![p] = IF drop_arm(state) = "dropped" THEN "drop_value"
                               ELSE drop_arm(state)]
    /\ IF drop_arm(state) = "dropped"
       THEN /\ f' = EMPTY
            /\ cnt' = Bump("f_drops")
            /\ faults' = faults \cup Fault(f = EMPTY, "f_drop_uninit")
       ELSE UNCHANGED <<f, cnt, faults>>
    /\ UNCHANGED <<kind, given, state, value, waker, tmp, notified, acq, last>>

\* Drop::drop: the load; in the UNINIT arm, self.f.get_mut().assume_init_drop()
drop(p) ==
    /\ CanOwn(p)
    /\ alive' = FALSE
    /\ op' = [op EXCEPT ![p] = "drop"]
    /\ ret' = [ret EXCEPT ![p] = NoRet]
    /\ pc' = [pc EXCEPT ![p] = drop_arm(state)]
    /\ IF drop_arm(state) = "dropped"
       THEN /\ f' = EMPTY
            /\ cnt' = Bump("f_drops")
            /\ faults' = faults \cup Fault(f = EMPTY, "f_drop_uninit")
       ELSE UNCHANGED <<f, cnt, faults>>
    /\ UNCHANGED <<kind, given, state, value, waker, tmp, notified, acq, last>>

\* INITIALIZING arm: one iteration of
\* while self.state.load(Acquire) == 1 { spin_loop() }
drop_spin(p) ==
    /\ pc[p] = "drop_spin"
    /\ pc' = [pc EXCEPT ![p] = IF spin_exit(state) THEN "drop_value" ELSE "drop_spin"]
    /\ UNCHANGED <<kind, given, state, f, value, waker, alive, op, tmp, ret, notified, cnt, faults, acq, last>>

\* unsafe { self.value.get_mut().assume_init_drop() }
drop_value(p) ==
    /\ pc[p] = "drop_value"
    /\ value' = EMPTY
    /\ cnt' = Bump("v_drops")
    /\ faults' = faults \cup Fault(value = EMPTY, "value_drop_uninit")
    /\ pc' = [pc EXCEPT ![p] = "dropped"]
    /\ UNCHANGED <<kind, given, state, f, waker, alive, op, tmp, ret, notified, acq, last>>

\* ------------------------------------------------------- specification

Next ==
    \/ \E p \in Procs : get(p)
    \/ \E p \in Procs : get_take(p)
    \/ \E p \in Procs : get_call_returns(p)
    \/ \E p \in Procs : get_call_panics(p)
    \/ \E p \in Procs : get_call_hangs(p)
    \/ \E p \in Procs : get_write(p)
    \/ \E p \in Procs : get_publish(p)
    \/ \E p \in Procs : get_wake(p)
    \/ \E p \in Procs : get_spin(p)
    \/ \E p \in Procs : get_read(p)
    \/ \E p \in Procs : release(p)
    \/ \E p \in Procs : poll_register(p)
    \/ \E p \in Procs : poll_check(p)
    \/ \E p \in Procs : resume(p)
    \/ \E p \in Procs : spurious_poll(p)
    \/ \E p \in Procs : drop_future(p)
    \/ \E p \in Procs : try_get(p)
    \/ \E p \in Procs : query(p)
    \/ \E p \in Procs : into_inner(p)
    \/ \E p \in Procs : into_inner_call(p)
    \/ \E p \in Procs : into_inner_value(p)
    \/ \E p \in Procs : try_into_inner(p)
    \/ \E p \in Procs : drop(p)
    \/ \E p \in Procs : drop_spin(p)
    \/ \E p \in Procs : drop_value(p)

Spec == Init /\ [][Next]_vars

\* A step of p inside an operation it has started (not the start of a call,
\* not a cancellation, not a poll nobody asked for).
Progress(p) ==
    \/ get_take(p)
    \/ get_call_returns(p) \/ get_call_panics(p) \/ get_call_hangs(p)
    \/ get_write(p) \/ get_publish(p) \/ get_wake(p)
    \/ get_spin(p) \/ get_read(p)
    \/ poll_register(p) \/ poll_check(p) \/ resume(p)
    \/ into_inner_call(p) \/ into_inner_value(p)
    \/ drop_spin(p) \/ drop_value(p)

\* Fair scheduling: a thread (a woken task) that can take a step eventually does.
FairSpec == Spec /\ \A p \in Procs : WF_vars(Progress(p))

\* ------------------------------------------------------------ properties

InGet(p) == op[p] \in {"get", "get_mut"}
Returned(p) == pc[p] = "done"
GotRef(p) == ret[p][1] \in {"Ref", "Some"}

\* The claimed initialization was abandoned: the state is INITIALIZING and no
\* process is on the winner's path any more (the initializer panicked, never
\* returns, or the winner's future was dropped).
Abandoned ==
    /\ state = INITIALIZING
    /\ \A p \in Procs : pc[p] \notin {"take", "call", "write", "publish"}

\* C1: on a cell built by new, under every interleaving at most one
\* compare-exchange UNINIT -> INITIALIZING succeeds, the initializer is run at
\* most once and the slot written at most once; every get that has returned
\* returned the value of that single run, and exactly one claim, run and write
\* have happened by then.
C1_ExactlyOnce ==
    given = F =>
        /\ cnt.claims <= 1
        /\ alive => (cnt.runs <= cnt.claims /\ cnt.writes <= cnt.runs)
        /\ \A p \in Procs :
            (InGet(p) /\ Returned(p)) =>
                /\ cnt.claims = 1 /\ cnt.runs = 1 /\ cnt.writes = 1
                /\ ret[p] = <<"Ref", Val(1)>>
                /\ value = Val(1)

\* C1 witness: every caller has called get on a cell built by new, and every
\* one of them has returned.
C1_Witness ==
    /\ given = F
    /\ \A p \in Callers : op[p] = "get" /\ Returned(p)

\* C2: no get and no try_get holds a reference before the value slot was
\* written: whenever a reference has been returned the slot is initialised and
\* the reference is to its content; and the state is INIT only after the write
\* (on a live cell, state = INIT implies the slot is written, by the winner
\* when the cell was built by new).
C2_PublicationOrder ==
    /\ \A p \in Procs : GotRef(p) => (value # EMPTY /\ ret[p][2] = value)
    /\ (alive /\ state = INIT) => value # EMPTY
    /\ (alive /\ state = INIT /\ given = F) => cnt.writes = 1
    /\ \A p \in Procs : pc[p] \in {"wake", "read"} => (state = INIT /\ value # EMPTY)

\* C2 witness: a loser that waited holds the reference while the winner is
\* still in get (about to wake or to read).
C2_Witness ==
    \E p, q \in Callers :
        /\ op[p] = "get" /\ Returned(p) /\ GotRef(p)
        /\ op[q] = "get" /\ pc[q] = "wake"
        /\ cnt.claims = 1

\* C3 (as claimed): once the winner has called waker.wake(), every caller
\* suspended in AwaitInit has been scheduled to be polled again.
C3_WakeReachesEverySuspended ==
    (kind = "AsyncLazy" /\ cnt.wakes >= 1) =>
        \A p \in Callers : pc[p] = "pending" => p \in notified

\* C4: under fair scheduling every get on a Lazy returns unless the claimed
\* initialization was abandoned (the initializer did not return); a spinning
\* caller leaves the loop only when the state is INIT, and goes on to the read.
C4_LazyGetReturns ==
    /\ \A p \in Callers :
        (kind = "Lazy" /\ InGet(p)) ~> (Returned(p) \/ Abandoned)
    /\ [][\A p \in Procs :
            (pc[p] = "spin" /\ pc'[p] # "spin") => (state = INIT /\ pc'[p] = "read")]_vars

\* C4 witness: a caller is spinning while the winner has published INIT.
C4_Witness ==
    /\ kind = "Lazy"
    /\ state = INIT
    /\ \E p, q \in Callers :
        /\ pc[p] = "spin"
        /\ op[q] = "get" /\ pc[q] \in {"read", "done"}

\* C5: a try_get step returns Some exactly when the state is INIT (with the
\* content of the value slot) and None otherwise, and changes neither the
\* state, nor either slot, nor any counter (no initializer run).
C5_TryGetSnapshot ==
    [][\A p \in Callers :
        (pc[p] = "idle" /\ op'[p] = "try_get") =>
            /\ UNCHANGED <<state, f, value, cnt, waker>>
            /\ (ret'[p][1] = "Some") <=> (state = INIT)
            /\ (ret'[p][1] = "None") <=> (state \in {UNINIT, INITIALIZING})
            /\ (ret'[p][1] = "Some") => (ret'[p][2] = value)]_vars

\* C5 witness: try_get returned None while the winner is between the claim
\* and the publication.
C5_Witness ==
    \E p, q \in Callers :
        /\ op[p] = "try_get" /\ Returned(p) /\ ret[p][1] = "None"
        /\ pc[q] = "publish"

\* C6: once the state is INIT, no step of a live cell changes the state, the
\* value slot, the number of initializer runs or of slot writes; and every
\* reference handed out is to the stored value.
C6_IdempotentAfterInit ==
    /\ [][(state = INIT /\ alive /\ alive') =>
            /\ state' = INIT
            /\ value' = value
            /\ cnt'.runs = cnt.runs
            /\ cnt'.writes = cnt.writes
            /\ cnt'.claims = cnt.claims]_vars
    /\ [](\A p \in Procs : (alive /\ state = INIT /\ GotRef(p)) => ret[p][2] = value)

\* C6 witness: on an initialised cell built by new, a get and a try_get have
\* both returned.
C6_Witness ==
    /\ given = F
    /\ state = INIT
    /\ \E p, q \in Callers :
        /\ op[p] = "get" /\ Returned(p)
        /\ op[q] = "try_get" /\ Returned(q) /\ ret[q][1] = "Some"

\* C7: a cell built by init(value) is INIT in every reachable state, has_init
\* holds, the initializer slot is never read and no initializer is ever run,
\* and whatever get, try_get, into_inner or try_into_inner hand out is the
\* supplied value.
C7_PreInitialized ==
    given \in Supplied =>
        /\ state = INIT
        /\ has_init(kind, state) /\ ~is_uninit(kind, state) /\ ~is_init(kind, state)
        /\ cnt.f_reads = 0 /\ cnt.runs = 0 /\ cnt.claims = 0 /\ cnt.f_drops = 0
        /\ \A p \in Procs :
            ret[p][1] \in {"Ref", "Some", "Owned", "Ok"} => ret[p][2] = given
        /\ \A p \in Procs : ret[p][1] \notin {"None", "Err"}

\* C7 witness: into_inner has returned on a cell built by init.
C7_Witness ==
    /\ given \in Supplied
    /\ op[Owner] = "into_inner" /\ Returned(Owner)

\* C8: when into_inner has returned on a cell in state UNINIT the initializer
\* was run exactly once (by into_inner: nobody claimed) and its result was
\* returned; on a cell in state INIT the stored value was returned and the
\* initializer was not run by into_inner (one run, the winner's, for a cell
\* built by new; none for a cell built by init).
C8_Consumption ==
    (op[Owner] = "into_inner" /\ Returned(Owner)) =>
        /\ state = UNINIT =>
            /\ cnt.claims = 0 /\ cnt.runs = 1 /\ cnt.f_reads = 1
            /\ ret[Owner] = <<"Owned", Val(1)>>
        /\ state = INIT =>
            /\ ret[Owner] = <<"Owned", IF given = F THEN Val(1) ELSE given>>
            /\ cnt.runs = (IF given = F THEN 1 ELSE 0)
            /\ cnt.f_reads = cnt.runs

\* C8 witness: into_inner returned after a get had initialised the cell.
C8_Witness ==
    /\ op[Owner] = "into_inner" /\ Returned(Owner)
    /\ state = INIT
    /\ given = F

\* C9: when try_into_inner has returned on a Lazy in state UNINIT it returned
\* Err with the original initializer, which was never run; in state INIT it
\* returned Ok with the stored value, and try_into_inner ran no initializer.
C9_TryIntoInner ==
    (op[Owner] = "try_into_inner" /\ Returned(Owner)) =>
        /\ state = UNINIT =>
            /\ ret[Owner] = <<"Err", F>>
            /\ cnt.runs = 0 /\ cnt.claims = 0
        /\ state = INIT =>
            /\ ret[Owner] = <<"Ok", IF given = F THEN Val(1) ELSE given>>
            /\ cnt.runs = (IF given = F THEN 1 ELSE 0)

\* C9 witness: try_into_inner handed back the initializer of an untouched cell.
C9_Witness ==
    /\ op[Owner] = "try_into_inner" /\ Returned(Owner)
    /\ state = UNINIT
    /\ ret[Owner][1] = "Err"

\* C10 (as claimed): Drop never waits on a cell whose state is INITIALIZING.
C10_DropInitializingIsFatal ==
    \A p \in Procs : op[p] = "drop" => pc[p] # "drop_spin"

\* C10 (amended): Drop on a cell whose state is INITIALIZING raises no error:
\* it waits in its spin loop for as long as the state is INITIALIZING, and
\* while it waits it has dropped neither the value slot nor the initializer
\* slot.
C10_DropInitializingWaits ==
    (op[Owner] = "drop" /\ state = INITIALIZING) =>
        /\ pc[Owner] = "drop_spin"
        /\ cnt.v_drops = 0 /\ cnt.f_drops = 0
        /\ faults \cap {"value_drop_uninit", "f_drop_uninit"} = {}

\* C10 witness: Drop is spinning on a cell whose initialization was abandoned.
C10_Witness ==
    /\ pc[Owner] = "drop_spin"
    /\ state = INITIALIZING

DropFaults == {"value_drop_uninit", "f_drop_uninit"}

\* C11: Drop on a cell in state UNINIT has dropped the initializer once and
\* left the value slot alone; Drop that has finished on a cell in state INIT
\* has dropped the value once and left the initializer slot alone; in every
\* reachable state each slot was dropped at most once, never both, and never
\* while empty.
C11_TeardownByState ==
    /\ cnt.f_drops <= 1 /\ cnt.v_drops <= 1 /\ cnt.f_drops + cnt.v_drops <= 1
    /\ faults \cap DropFaults = {}
    /\ (cnt.f_drops + cnt.v_drops >= 1) => op[Owner] = "drop"
    /\ (op[Owner] = "drop" /\ state = UNINIT) =>
        /\ pc[Owner] = "dropped"
        /\ cnt.f_drops = 1 /\ cnt.v_drops = 0
        /\ given = F /\ cnt.f_reads = 0
        /\ value = EMPTY
    /\ (op[Owner] = "drop" /\ state = INIT /\ pc[Owner] = "dropped") =>
        /\ cnt.v_drops = 1 /\ cnt.f_drops = 0
        /\ f = EMPTY
        /\ cnt.f_reads = (IF given = F THEN 1 ELSE 0)
    /\ (op[Owner] = "drop" /\ state = INIT /\ pc[Owner] = "drop_value") =>
        /\ cnt.v_drops = 0 /\ cnt.f_drops = 0
        /\ value # EMPTY

\* C11 witness: Drop has finished on a cell that a get had initialised.
C11_Witness ==
    /\ op[Owner] = "drop" /\ pc[Owner] = "dropped"
    /\ state = INIT
    /\ given = F
    /\ cnt.v_drops = 1

\* No call is in progress on a live cell: whoever holds it holds it uniquely.
UniquelyOwned == alive /\ \A p \in Procs : pc[p] = "idle"

\* C12 (as claimed): whenever a Lazy is uniquely owned its state is UNINIT or
\* INIT, and no unreachable arm of into_inner / try_into_inner was ever taken.
C12_OwnerNeverSeesInitializing ==
    kind = "Lazy" =>
        /\ UniquelyOwned => state \in {UNINIT, INIT}
        /\ "unreachable" \notin faults

Suspended(p) == pc[p] \in {"poll", "check", "pending"}

\* C13 (as claimed): an AsyncLazy::into_inner that found the state
\* INITIALIZING and suspended on AwaitInit eventually returns.
C13_IntoInnerEventuallyReturns ==
    (kind = "AsyncLazy" /\ op[Owner] = "into_inner" /\ Suspended(Owner))
        ~> Returned(Owner)

\* C13 (amended): an AsyncLazy::into_inner that found the state INITIALIZING
\* stays suspended on AwaitInit: it owns the cell, so the initialization was
\* abandoned, the state is never published, it is never woken and never
\* returns; Drop is not run and neither slot is moved out or dropped.
C13_IntoInnerStaysSuspended ==
    (kind = "AsyncLazy" /\ op[Owner] = "into_inner" /\ state = INITIALIZING) =>
        /\ Suspended(Owner)
        /\ Abandoned
        /\ ~alive
        /\ \A p \in Callers : pc[p] = "idle"
        /\ Owner \notin notified
        /\ ret[Owner] = NoRet
        /\ value = EMPTY /\ f = EMPTY
        /\ cnt.v_drops = 0 /\ cnt.f_drops = 0 /\ cnt.writes = 0

\* C13 witness: into_inner has been polled, registered its waker, found the
\* state INITIALIZING and returned Pending.
C13_Witness ==
    /\ kind = "AsyncLazy"
    /\ op[Owner] = "into_inner"
    /\ pc[Owner] = "pending"
    /\ waker = Owner

\* C14: once the claimed initialization is abandoned it stays abandoned: no
\* step changes the state, which remains INITIALIZING, nothing is written to
\* the value slot, and no caller of get or get_mut gets past its wait (it
\* spins, is suspended in AwaitInit, or is the caller stuck in the
\* initializer) or returns.
C14_StuckIsPermanent ==
    /\ [][Abandoned => (Abandoned' /\ state' = INITIALIZING /\ cnt'.writes = cnt.writes)]_vars
    /\ [](Abandoned =>
            \A p \in Procs :
                /\ InGet(p) => (pc[p] \in {"spin", "hung"} \/ Suspended(p))
                /\ ret[p][1] \notin {"Ref", "Some"})

\* C14 witness: the initialization was abandoned, one caller spins or is
\* suspended on it, and a caller that came later is waiting too.
C14_Witness ==
    /\ Abandoned
    /\ \E p, q \in Callers :
        /\ p # q
        /\ pc[p] \in {"spin", "pending"}
        /\ pc[q] \in {"spin", "pending"}
    /\ \A p \in Callers : pc[p] # "hung"

\* C15: the state only ever takes the steps UNINIT -> INITIALIZING, made by a
\* successful compare-exchange (one more claim is counted), and
\* INITIALIZING -> INIT, made by the publish of the caller that holds the
\* claim; it never decreases and never goes from UNINIT directly to INIT.
C15_StateMonotonic ==
    [][state' # state =>
        \/ /\ state = UNINIT /\ state' = INITIALIZING
           /\ cnt'.claims = cnt.claims + 1
           /\ \E p \in Procs : pc[p] = "idle" /\ pc'[p] = "take"
        \/ /\ state = INITIALIZING /\ state' = INIT
           /\ \E p \in Procs : pc[p] = "publish" /\ pc'[p] \in {"read", "wake"}]_vars

\* C15 witness: a cell built with new went through both steps and a later
\* try_get saw the result.
C15_Witness ==
    /\ given = F /\ state = INIT /\ cnt.claims = 1 /\ cnt.writes = 1
    /\ \E p \in Callers : op[p] = "try_get" /\ ret[p][1] = "Some"

\* C16: every caller that reads the value slot after observing INIT observed
\* it through an acquire load paired with the release publish, so that the
\* write of the slot happens before the read: a caller about to read the
\* slot in get, or holding a reference to it, is ordered after the write, and
\* no read ever raced with the write.
C16_AcquireReleasePairing ==
    /\ \A p \in Procs :
        (InGet(p) /\ pc[p] = "read") \/ (alive /\ GotRef(p)) => p \in acq
    /\ "data_race" \notin faults

\* No task other than p is inside AwaitInit.
OnlySuspended(p) == \A q \in Procs \ {p} : ~Suspended(q)

\* C17: each poll of AwaitInit first registers the caller's waker, whatever the
\* slot held, and only then loads the state, Ready iff it is the target; so the
\* latest registrant is never left behind: when it is Pending and the state is
\* INIT it has been woken or the winner's wake of its waker is still to come,
\* and a caller suspended alone does not stay suspended once the state is INIT.
C17_NoLostWakeup ==
    /\ [][\A p \in Callers :
            /\ (pc[p] = "poll" /\ pc'[p] # "poll" /\ pc'[p] # "idle") =>
                    (pc'[p] = "check" /\ waker' = p /\ state' = state)
            /\ (pc[p] = "check" /\ pc'[p] # "check" /\ InGet(p)) =>
                    pc'[p] = (IF state = INIT THEN "read" ELSE "pending")]_vars
    /\ [](\A p \in Callers :
            (InGet(p) /\ pc[p] = "pending" /\ last = p /\ state = INIT) =>
                \/ p \in notified
                \/ waker = p /\ \E w \in Procs : pc[w] = "wake")
    /\ \A p \in Callers :
            (InGet(p) /\ pc[p] = "pending" /\ last = p /\ state = INIT /\ OnlySuspended(p))
                ~> ~Suspended(p)

\* C17 witness: the only suspended caller went Pending before the publish and
\* the winner's wake has reached it.
C17_Witness ==
    \E p \in Callers :
        /\ InGet(p) /\ pc[p] = "pending" /\ last = p /\ state = INIT
        /\ OnlySuspended(p)
        /\ p \in notified /\ waker = NoProc /\ cnt.wakes = 1

SlotFaults == {"f_read_uninit", "value_read_uninit", "f_drop_uninit", "value_drop_uninit"}

\* C18: on a live cell, state = UNINIT implies the initializer slot holds the
\* initializer and the value slot is empty, and state = INIT implies the value
\* slot holds the value and the initializer slot is empty; the initializer
\* slot is read only by the caller that won the claim or by an exclusive owner
\* that loaded UNINIT; the value slot is written only by the claim winner while
\* the state is INITIALIZING; and the value slot is read (or moved out, or
\* dropped) only when INIT was observed, so no slot is touched while empty.
C18_SlotDiscipline ==
    /\ [](alive =>
            /\ state = UNINIT => (f = F /\ value = EMPTY)
            /\ state = INIT => (value # EMPTY /\ f = EMPTY))
    /\ [][(cnt'.f_reads # cnt.f_reads \/ f' # f) =>
            \E p \in Procs :
                \/ pc[p] = "take" /\ pc'[p] = "call" /\ state = INITIALIZING
                \/ p = Owner /\ pc[p] = "idle" /\ pc'[p] # "idle" /\ state = UNINIT]_vars
    /\ [][(cnt'.writes # cnt.writes \/ (value' # value /\ value' # EMPTY)) =>
            /\ state = INITIALIZING
            /\ \E p \in Procs : pc[p] = "write" /\ pc'[p] = "publish"]_vars
    /\ [](\A p \in Procs : pc[p] \in {"read", "ii_value", "drop_value"} => state = INIT)
    /\ [](faults \cap SlotFaults = {})

\* C19: the internal assertions of get and get_mut never fire: the state is
\* always one of the three defined values, no caller of get or get_mut is in
\* the catch-all unreachable arm (a failed compare-exchange returned
\* INITIALIZING or INIT), and every publish finds the previous state
\* INITIALIZING, so that the assert_eq on the swap holds.
C19_AssertionsNeverFire ==
    /\ [](state \in {UNINIT, INITIALIZING, INIT})
    /\ [](\A p \in Procs : InGet(p) => pc[p] # "unreachable")
    /\ []("assert_eq" \notin faults)
    /\ [][\A p \in Procs :
            (pc[p] = "publish" /\ pc'[p] # "publish") =>
                (state = INITIALIZING /\ state' = INIT)]_vars
    /\ [][\A p \in Procs :
            (pc[p] = "idle" /\ InGet(p)' /\ state # UNINIT) =>
                pc'[p] = (IF state = INIT THEN "read"
                          ELSE IF kind = "Lazy" THEN "spin" ELSE "poll")]_vars

\* C19 witness: the winner has published, one loser whose compare-exchange
\* failed has returned and another is about to read.
C19_Witness ==
    /\ given = F /\ state = INIT /\ cnt.claims = 1
    /\ \E p, q \in Callers :
        /\ p # q
        /\ op[p] = "get" /\ pc[p] = "done"
        /\ op[q] = "get" /\ pc[q] = "read"
    /\ \E w \in Callers : op[w] = "get" /\ pc[w] = "wake"

\* C20: on any one value of the state exactly one of is_uninit, is_init and
\* has_init is true (is_uninit iff UNINIT, is_init iff INITIALIZING, has_init
\* iff INIT), Lazy's and AsyncLazy's comparisons give the same answers in
\* every reachable state, and a query returns that answer for the state it
\* loaded and leaves the state, both slots and the waker unchanged.
C20_QueriesPartition ==
    /\ [](\A k \in Kinds :
            /\ is_uninit(k, state) <=> state = UNINIT
            /\ is_init(k, state) <=> state = INITIALIZING
            /\ has_init(k, state) <=> state = INIT
            /\ Cardinality({q \in Queries : answer(q, k, state)}) = 1)
    /\ [](\A q \in Queries : answer(q, "Lazy", state) = answer(q, "AsyncLazy", state))
    /\ [][\A p \in Procs :
            (pc[p] = "idle" /\ op'[p] \in Queries) =>
                /\ UNCHANGED <<state, f, value, waker, cnt, alive>>
                /\ ret'[p] = <<"Bool", Bool(answer(op'[p], kind, state))>>
                /\ ret'[p][2] = Bool(\/ op'[p] = "is_uninit" /\ state = UNINIT
                                     \/ op'[p] = "is_init" /\ state = INITIALIZING
                                     \/ op'[p] = "has_init" /\ state = INIT)]_vars

\* C20 witness: while the winner of an AsyncLazy runs the initializer and a
\* loser is suspended, has_init has just answered false to a third caller.
C20_Witness ==
    /\ state = INITIALIZING
    /\ kind = "AsyncLazy"
    /\ \E w, l, p \in Callers :
        /\ pc[w] = "call"
        /\ pc[l] = "pending"
        /\ op[p] = "has_init" /\ pc[p] = "done" /\ ret[p] = <<"Bool", Bool(FALSE)>>

====
